---------------------------- MODULE Spec2Model ----------------------------
(***************************************************************************)
(* A model of src/loader/LoaderInterface.py: the helper routines a loader  *)
(* module runs on the objects it has loaded into the host application      *)
(* (bpy).  The state is the part of the host scene the helpers read and    *)
(* write (selection, active object, interaction mode, object transforms,   *)
(* mesh coordinates, face shading flags, active materials, custom          *)
(* properties) plus the position of the call in progress.                  *)
(*                                                                         *)
(* Strings the code inspects character by character (shading modes and     *)
(* property keys) are sequences of one-character strings.  Coordinates are *)
(* integers; every initial coordinate is a multiple of 4 so that the means *)
(* the code takes are exact (checked by ArithmeticExact), as they are in   *)
(* binary floating point for such values.                                  *)
(***************************************************************************)
EXTENDS Integers, Sequences, FiniteSets, TLC

VARIABLES scene, config, call, pre, calls

vars == <<scene, config, call, pre, calls>>

(***************************************************************************)
(* Bounds of the model.                                                    *)
(***************************************************************************)
MaxList == 2
MaxCalls == 2
NFaces == 2
MaxProps == 2

(***************************************************************************)
(* The datablocks of the scene.  o1 and o2 are bpy.types.Object of type    *)
(* 'MESH', o3 is a bpy.types.Object of type 'LIGHT', d1 is a datablock     *)
(* that is a bpy.types.ID but no Object (a material, light or camera       *)
(* datablock).                                                             *)
(***************************************************************************)
MeshObjects == {"o1", "o2"}
Objects == MeshObjects \cup {"o3"}
Items == Objects \cup {"d1"}

\* bpy.data.materials: the names of the loaded materials.
LoadedMaterials == {"matA", "matB"}

\* hasattr(obj, 'type') and obj.type == 'MESH'
IsMesh(obj) == obj \in MeshObjects

\* isinstance(obj, bpy.types.Object)
IsObject(obj) == obj \in Objects

(***************************************************************************)
(* Sequences.                                                              *)
(***************************************************************************)
SeqsUpTo(S, n) == UNION {[1..k -> S] : k \in 0..n}

Range(s) == {s[i] : i \in 1..Len(s)}

(***************************************************************************)
(* Vectors and the transform of an object.  rotation_euler is modelled on  *)
(* the X axis in quarter turns (the rotation loading from .obj files       *)
(* leaves); the other two angles are 0.                                    *)
(***************************************************************************)
Zero == <<0, 0, 0>>
One == <<1, 1, 1>>

Add(u, v) == <<u[1] + v[1], u[2] + v[2], u[3] + v[3]>>
Sub(u, v) == <<u[1] - v[1], u[2] - v[2], u[3] - v[3]>>
Mul(s, v) == <<s[1] * v[1], s[2] * v[2], s[3] * v[3]>>
Div(v, s) == <<v[1] \div s[1], v[2] \div s[2], v[3] \div s[3]>>

\* v rotated by q quarter turns (q * pi/2) around the X axis.
RECURSIVE RotX(_, _)
RotX(q, v) == IF q % 4 = 0 THEN v ELSE RotX((q % 4) - 1, <<v[1], -v[3], v[2]>>)

\* obj.matrix_world applied to a point of the mesh (location, rotation, scale).
World(h, obj, p) == Add(h.loc[obj], RotX(h.rot[obj], Mul(h.scale[obj], p)))

Min(S) == CHOOSE x \in S : \A y \in S : x <= y
Max(S) == CHOOSE x \in S : \A y \in S : x >= y

\* obj.bound_box: the 8 corners of the axis-aligned box around the mesh, in
\* the object's own coordinates.
BoundBox(m) ==
    LET lo == [a \in 1..3 |-> Min({m[i][a] : i \in 1..Len(m)})]
        hi == [a \in 1..3 |-> Max({m[i][a] : i \in 1..Len(m)})]
        pick(b, a) == IF b = 0 THEN lo[a] ELSE hi[a]
    IN  << <<pick(0, 1), pick(0, 2), pick(0, 3)>>,
           <<pick(0, 1), pick(0, 2), pick(1, 3)>>,
           <<pick(0, 1), pick(1, 2), pick(1, 3)>>,
           <<pick(0, 1), pick(1, 2), pick(0, 3)>>,
           <<pick(1, 1), pick(0, 2), pick(0, 3)>>,
           <<pick(1, 1), pick(0, 2), pick(1, 3)>>,
           <<pick(1, 1), pick(1, 2), pick(1, 3)>>,
           <<pick(1, 1), pick(1, 2), pick(0, 3)>> >>

\* src.utility.BlenderUtility.get_bounds: the corners of the bounding box in
\* world coordinates.
get_bounds(h, obj) ==
    LET bb == BoundBox(h.mesh[obj])
    IN  [i \in 1..Len(bb) |-> World(h, obj, bb[i])]

RECURSIVE SumAxis(_, _, _)
SumAxis(pts, a, n) == IF n = 0 THEN 0 ELSE pts[n][a] + SumAxis(pts, a, n - 1)

\* np.mean(pts, axis=0)
MeanAxis0(pts) ==
    [a \in 1..3 |-> SumAxis(pts, a, Len(pts)) \div Len(pts)]

\* np.min(pts, axis=0)
MinAxis0(pts) ==
    [a \in 1..3 |-> Min({pts[i][a] : i \in 1..Len(pts)})]

(***************************************************************************)
(* The host operators the helpers call.  Each is a function of the scene.  *)
(***************************************************************************)

\* bpy.ops.object.select_all(action='DESELECT')
select_all_DESELECT(h) == [h EXCEPT !.selected = {}]

\* obj.select_set(state)
select_set(h, obj, state) ==
    [h EXCEPT !.selected = IF state THEN @ \cup {obj} ELSE @ \ {obj}]

\* bpy.context.view_layer.objects.active = obj
set_active(h, obj) == [h EXCEPT !.active = obj]

\* bpy.ops.object.transform_apply(location=True, rotation=True, scale=True):
\* every selected object has its transform applied to its mesh and reset.
transform_apply(h) ==
    [h EXCEPT
        !.mesh = [o \in MeshObjects |->
                    IF o \in h.selected
                    THEN [i \in 1..Len(h.mesh[o]) |-> World(h, o, h.mesh[o][i])]
                    ELSE h.mesh[o]],
        !.loc = [o \in Objects |-> IF o \in h.selected THEN Zero ELSE h.loc[o]],
        !.rot = [o \in Objects |-> IF o \in h.selected THEN 0 ELSE h.rot[o]],
        !.scale = [o \in Objects |-> IF o \in h.selected THEN One ELSE h.scale[o]]]

\* bpy.ops.object.mode_set(mode=...): entering edit mode puts the active object
\* and every selected mesh object into edit mode; object mode ends it.
mode_set(h, mode) ==
    [h EXCEPT
        !.mode = mode,
        !.editing = IF mode = "EDIT"
                    THEN (h.selected \cup {h.active}) \cap MeshObjects
                    ELSE {}]

\* The median point of a mesh: the pivot of a rotation in edit mode.
Median(m) == MeanAxis0(m)

\* bpy.ops.transform.rotate(value=np.pi * 0.5, orient_axis="X"): in edit mode
\* the meshes being edited turn a quarter around the global X axis through
\* their median point; outside edit mode the operator does not touch a mesh.
transform_rotate_X(h) ==
    IF h.mode # "EDIT" THEN h
    ELSE
    [h EXCEPT
        !.mesh = [o \in MeshObjects |->
            IF o \notin h.editing THEN h.mesh[o]
            ELSE LET m == h.mesh[o]
                     c == Median(m)
                     \* the global quarter turn in the object's coordinates
                     turn(d) == Div(RotX(4 - (h.rot[o] % 4),
                                         RotX(1, RotX(h.rot[o], Mul(h.scale[o], d)))),
                                    h.scale[o])
                 IN  [i \in 1..Len(m) |-> Add(c, turn(Sub(m[i], c)))]]]

\* bpy.ops.transform.translate(value=v): in edit mode the meshes being edited
\* move by v in global coordinates.
transform_translate(h, v) ==
    IF h.mode # "EDIT" THEN h
    ELSE
    [h EXCEPT
        !.mesh = [o \in MeshObjects |->
            IF o \notin h.editing THEN h.mesh[o]
            ELSE LET d == Div(RotX(4 - (h.rot[o] % 4), v), h.scale[o])
                 IN  [i \in 1..Len(h.mesh[o]) |-> Add(h.mesh[o][i], d)]]]

(***************************************************************************)
(* Strings: sequences of one-character strings.                            *)
(***************************************************************************)
UpperCase == <<"A", "B", "C", "D", "E", "F", "G", "H", "I", "J", "K", "L", "M",
               "N", "O", "P", "Q", "R", "S", "T", "U", "V", "W", "X", "Y", "Z">>
LowerCase == <<"a", "b", "c", "d", "e", "f", "g", "h", "i", "j", "k", "l", "m",
               "n", "o", "p", "q", "r", "s", "t", "u", "v", "w", "x", "y", "z">>

LowerChar(c) ==
    IF \E i \in 1..Len(UpperCase) : UpperCase[i] = c
    THEN LowerCase[CHOOSE i \in 1..Len(UpperCase) : UpperCase[i] = c]
    ELSE c

\* str.lower()
lower(s) == [i \in 1..Len(s) |-> LowerChar(s[i])]

\* A variant of startswith: the prefix anywhere in the string ("cp_" in key).
startswith_anywhere(s, prefix) ==
    \E i \in 1..Len(s) : SubSeq(s, i, i + Len(prefix) - 1) = prefix

\* str.startswith(prefix)
startswith(s, prefix) ==
    /\ Len(s) >= Len(prefix)
    /\ SubSeq(s, 1, Len(prefix)) = prefix

\* A variant of key[3:]: key.lstrip("cp_"), which drops every leading
\* character among c, p and _.
RECURSIVE from3_lstrip(_)
from3_lstrip(s) ==
    IF s # <<>> /\ s[1] \in {"c", "p", "_"} THEN from3_lstrip(Tail(s)) ELSE s

\* key[3:]
from3(s) == SubSeq(s, 4, Len(s))

flat == <<"f", "l", "a", "t">>
smooth == <<"s", "m", "o", "o", "t", "h">>
cp_ == <<"c", "p", "_">>

(***************************************************************************)
(* The outcome of a call: the scene it leaves and how it ended.            *)
(***************************************************************************)
Returned(h) == [scene |-> h, status |-> "returned"]
Raised(h, exception) == [scene |-> h, status |-> exception]

(***************************************************************************)
(* change_shading_mode                                                     *)
(***************************************************************************)
\* for obj in objects: for face in obj.data.polygons: face.use_smooth = is_smooth
set_use_smooth(h, objects, is_smooth) ==
    [h EXCEPT !.smooth = [o \in MeshObjects |->
        IF o \in Range(objects)
        THEN [f \in 1..Len(h.smooth[o]) |-> is_smooth]
        ELSE h.smooth[o]]]

\* A variant of change_shading_mode: the mode compared without lower().
change_shading_mode_cased(h, objects, mode) ==
    IF mode = flat THEN Returned(set_use_smooth(h, objects, FALSE))
    ELSE IF mode = smooth THEN Returned(set_use_smooth(h, objects, TRUE))
    ELSE Raised(h, "Exception")

change_shading_mode(h, objects, mode) ==
    IF lower(mode) = flat THEN Returned(set_use_smooth(h, objects, FALSE))
    ELSE IF lower(mode) = smooth THEN Returned(set_use_smooth(h, objects, TRUE))
    ELSE Raised(h, "Exception")

(***************************************************************************)
(* change_material                                                         *)
(***************************************************************************)
\* for obj in objects: obj.active_material = material
set_active_material(h, objects, material) ==
    [h EXCEPT !.material = [o \in Objects |->
        IF o \in Range(objects) THEN material ELSE h.material[o]]]

\* A variant of change_material: the objects are changed before the check that
\* the material is loaded.
change_material_late_check(h, objects, material_name) ==
    IF material_name \notin LoadedMaterials
    THEN Raised(set_active_material(h, objects, material_name), "Exception")
    ELSE Returned(set_active_material(h, objects, material_name))

change_material(h, objects, material_name) ==
    IF material_name \notin LoadedMaterials THEN Raised(h, "Exception")
    ELSE Returned(set_active_material(h, objects, material_name))

(***************************************************************************)
(* apply_transformation_to_objects as one function of the scene (the form  *)
(* _set_properties calls it in).                                           *)
(***************************************************************************)
apply_transformation_body(h, obj) ==
    select_set(transform_apply(set_active(select_set(h, obj, TRUE), obj)), obj, FALSE)

RECURSIVE apply_transformation_loop(_, _, _)
apply_transformation_loop(h, objects, k) ==
    IF k > Len(objects) THEN h
    ELSE apply_transformation_loop(apply_transformation_body(h, objects[k]), objects, k + 1)

apply_transformation_to_objects(h, objects) ==
    select_all_DESELECT(apply_transformation_loop(select_all_DESELECT(h), objects, 1))

(***************************************************************************)
(* The configuration of the module.  add_properties is the dict as the     *)
(* sequence of its items (a missing dict is the empty one, the default of  *)
(* get_raw_dict); each other parameter is <<>> when the configuration      *)
(* does not hold it and <<value>> when it does.                            *)
(***************************************************************************)
has_param(cfg, name) == cfg[name] # <<>>

\* self.config.get_bool(name, default)
get_bool(cfg, name, default) == IF has_param(cfg, name) THEN cfg[name][1] ELSE default

\* self.config.get_string(name)
get_string(cfg, name) == cfg[name][1]

(***************************************************************************)
(* _set_properties                                                         *)
(***************************************************************************)
\* obj[key] = value
set_item(h, obj, key, value) ==
    [h EXCEPT !.props[obj] =
        [n \in (DOMAIN h.props[obj]) \cup {key} |->
            IF n = key THEN value ELSE h.props[obj][n]]]

\* for key, value in properties.items(): ...
RECURSIVE set_custom_properties(_, _, _, _)
set_custom_properties(h, obj, items, k) ==
    IF k > Len(items) THEN Returned(h)
    ELSE IF startswith(items[k][1], cp_)
         THEN set_custom_properties(set_item(h, obj, from3(items[k][1]), items[k][2]),
                                    obj, items, k + 1)
         ELSE Raised(h, "RuntimeError")

\* if self.config.has_param("cf_set_shading"): ...
custom_shading(h, cfg, obj) ==
    IF has_param(cfg, "cf_set_shading")
    THEN change_shading_mode(h, <<obj>>, get_string(cfg, "cf_set_shading"))
    ELSE Returned(h)

\* if self.config.has_param("cf_set_obj_material"): ...
custom_material(h, cfg, obj) ==
    IF has_param(cfg, "cf_set_obj_material")
    THEN change_material(h, <<obj>>, get_string(cfg, "cf_set_obj_material"))
    ELSE Returned(h)

\* if apply_transformation: LoaderInterface.apply_transformation_to_objects([obj])
custom_transformation(h, cfg, obj) ==
    IF get_bool(cfg, "cf_apply_transformation", FALSE)
    THEN Returned(apply_transformation_to_objects(h, <<obj>>))
    ELSE Returned(h)

\* A variant of the loop body: the custom functions without the tests of the
\* item's type.
set_properties_body_untyped(h, cfg, obj) ==
    LET r1 == set_custom_properties(h, obj, cfg.add_properties, 1)
        r2 == IF r1.status # "returned" THEN r1
              ELSE custom_shading(r1.scene, cfg, obj)
        r3 == IF r2.status # "returned" THEN r2
              ELSE custom_material(r2.scene, cfg, obj)
    IN  IF r3.status # "returned" THEN r3
        ELSE custom_transformation(r3.scene, cfg, obj)

\* The body of the loop over the objects, for one object.
set_properties_body(h, cfg, obj) ==
    LET r1 == set_custom_properties(h, obj, cfg.add_properties, 1)
        r2 == IF r1.status # "returned" \/ ~IsMesh(obj) THEN r1
              ELSE custom_shading(r1.scene, cfg, obj)
        r3 == IF r2.status # "returned" \/ ~IsMesh(obj) THEN r2
              ELSE custom_material(r2.scene, cfg, obj)
    IN  IF r3.status # "returned" \/ ~IsObject(obj) THEN r3
        ELSE custom_transformation(r3.scene, cfg, obj)

RECURSIVE set_properties_loop(_, _, _, _)
set_properties_loop(h, cfg, objects, k) ==
    IF k > Len(objects) THEN Returned(h)
    ELSE LET r == set_properties_body(h, cfg, objects[k])
         IN  IF r.status # "returned" THEN r
             ELSE set_properties_loop(r.scene, cfg, objects, k + 1)

_set_properties(h, cfg, objects) == set_properties_loop(h, cfg, objects, 1)

(***************************************************************************)
(* The inputs.                                                             *)
(***************************************************************************)
Modes ==
    { <<"f", "l", "a", "t">>, <<"F", "l", "a", "T">>,
      <<"S", "M", "O", "O", "T", "H">>,
      <<"f", "l", "a", "t", " ">>, <<"p", "h", "o", "n", "g">>, <<>> }

ConfigModes == { <<"S", "m", "o", "o", "t", "h">>, <<"p", "h", "o", "n", "g">> }

MaterialNames == {"matA", "matB", "matX"}

Keys ==
    { <<"c", "p", "_", "a">>, <<"c", "p", "_", "c", "p", "_", "a">>,
      <<"c", "p", "_">>, <<"a", "c", "p", "_">> }

Values == {1, 2}

Dicts ==
    { d \in SeqsUpTo(Keys \X Values, MaxProps) :
        \A i, j \in 1..Len(d) : d[i][1] = d[j][1] => i = j }

Optional(S) == {<<>>} \cup {<<x>> : x \in S}

EmptyConfig ==
    [add_properties |-> <<>>, cf_set_shading |-> <<>>,
     cf_set_obj_material |-> <<>>, cf_apply_transformation |-> <<>>]

Configs ==
    [add_properties : Dicts,
     cf_set_shading : Optional(ConfigModes),
     cf_set_obj_material : Optional({"matA", "matX"}),
     cf_apply_transformation : Optional(BOOLEAN)]

(***************************************************************************)
(* The initial scenes.                                                     *)
(***************************************************************************)
InitMesh == << <<0, 0, 0>>, <<4, 8, 12>> >>

InitTransforms ==
    { [loc |-> Zero, rot |-> 0, scale |-> One],
      [loc |-> <<4, -8, 12>>, rot |-> 1, scale |-> <<2, 2, 2>>] }

\* The custom properties o1 holds before any call.
ExistingProps ==
    [n \in { <<"a">>, <<"k">> } |-> 0]

InitScene(sel, m, t) ==
    [selected |-> sel,
     active |-> "o3",
     mode |-> "OBJECT",
     editing |-> {},
     loc |-> [o \in Objects |-> IF o = "o1" THEN t.loc ELSE <<0, 4, -4>>],
     rot |-> [o \in Objects |-> IF o = "o1" THEN t.rot ELSE 3],
     scale |-> [o \in Objects |-> IF o = "o1" THEN t.scale ELSE One],
     mesh |-> [o \in MeshObjects |->
                 IF o = "o1" THEN m ELSE << <<8, 0, -4>>, <<0, 4, 4>> >>],
     smooth |-> [o \in MeshObjects |-> [f \in 1..NFaces |-> (o = "o1" /\ f = 1)]],
     material |-> [o \in Objects |-> IF o = "o1" THEN "matB" ELSE "none"],
     props |-> [x \in Items |-> IF x = "o1" THEN ExistingProps ELSE <<>>]]

NoCall ==
    [fn |-> "none", objects |-> <<>>, arg |-> <<>>, val |-> Zero,
     i |-> 0, pc |-> "idle", status |-> "none"]

\* The static helpers, called on any scene.
Init ==
    /\ \E sel \in SUBSET Objects, t \in InitTransforms :
          scene = InitScene(sel, InitMesh, t)
    /\ config = EmptyConfig
    /\ call = NoCall
    /\ pre = scene
    /\ calls = 0

\* A loader module constructed with any configuration.
InitLoader ==
    /\ \E sel \in {{}, {"o2", "o3"}}, t \in InitTransforms :
          scene = InitScene(sel, InitMesh, t)
    /\ config \in Configs
    /\ call = NoCall
    /\ pre = scene
    /\ calls = 0

Idle == call.pc = "idle" /\ calls < MaxCalls

Begin(fn, objects, arg, pc) ==
    /\ Idle
    /\ call' = [fn |-> fn, objects |-> objects, arg |-> arg, val |-> Zero,
                i |-> 1, pc |-> pc, status |-> "running"]
    /\ pre' = scene
    /\ calls' = calls + 1

Goto(pc) == call' = [call EXCEPT !.pc = pc]

Return == call' = [call EXCEPT !.pc = "idle", !.status = "returned"]

\* The object the loop is at.
Obj == call.objects[call.i]

(***************************************************************************)
(* apply_transformation_to_objects, statement by statement.                *)
(***************************************************************************)
AT_Call ==
    \E objects \in SeqsUpTo(MeshObjects, MaxList) :
        /\ Begin("apply_transformation_to_objects", objects, <<>>, "at_deselect")
        /\ UNCHANGED <<scene, config>>

\* A variant of AT_Deselect: the selection is not cleared first.
AT_Deselect_skipped ==
    /\ call.pc = "at_deselect"
    /\ Goto(IF call.objects = <<>> THEN "at_end" ELSE "at_select")
    /\ UNCHANGED <<scene, config, pre, calls>>

AT_Deselect ==
    /\ call.pc = "at_deselect"
    /\ scene' = select_all_DESELECT(scene)
    /\ Goto(IF call.objects = <<>> THEN "at_end" ELSE "at_select")
    /\ UNCHANGED <<config, pre, calls>>

AT_Select ==
    /\ call.pc = "at_select"
    /\ scene' = select_set(scene, Obj, TRUE)
    /\ Goto("at_active")
    /\ UNCHANGED <<config, pre, calls>>

AT_Active ==
    /\ call.pc = "at_active"
    /\ scene' = set_active(scene, Obj)
    /\ Goto("at_apply")
    /\ UNCHANGED <<config, pre, calls>>

AT_Apply ==
    /\ call.pc = "at_apply"
    /\ scene' = transform_apply(scene)
    /\ Goto("at_unselect")
    /\ UNCHANGED <<config, pre, calls>>

AT_Unselect ==
    /\ call.pc = "at_unselect"
    /\ scene' = select_set(scene, Obj, FALSE)
    /\ call' = IF call.i < Len(call.objects)
               THEN [call EXCEPT !.i = @ + 1, !.pc = "at_select"]
               ELSE [call EXCEPT !.pc = "at_end"]
    /\ UNCHANGED <<config, pre, calls>>

AT_End ==
    /\ call.pc = "at_end"
    /\ scene' = select_all_DESELECT(scene)
    /\ Return
    /\ UNCHANGED <<config, pre, calls>>

(***************************************************************************)
(* remove_x_axis_rotation, statement by statement.                         *)
(***************************************************************************)
\* obj.rotation_euler = [0, 0, 0]
set_rotation_euler_zero(h, obj) == [h EXCEPT !.rot[obj] = 0]

RX_Call ==
    \E objects \in SeqsUpTo(MeshObjects, MaxList) :
        /\ Begin("remove_x_axis_rotation", objects, <<>>, "rx_deselect")
        /\ UNCHANGED <<scene, config>>

RX_Deselect ==
    /\ call.pc = "rx_deselect"
    /\ scene' = select_all_DESELECT(scene)
    /\ Goto(IF call.objects = <<>> THEN "rx_update" ELSE "rx_select")
    /\ UNCHANGED <<config, pre, calls>>

RX_Select ==
    /\ call.pc = "rx_select"
    /\ scene' = select_set(scene, Obj, TRUE)
    /\ Goto("rx_active")
    /\ UNCHANGED <<config, pre, calls>>

RX_Active ==
    /\ call.pc = "rx_active"
    /\ scene' = set_active(scene, Obj)
    /\ Goto("rx_reset")
    /\ UNCHANGED <<config, pre, calls>>

RX_Reset ==
    /\ call.pc = "rx_reset"
    /\ scene' = set_rotation_euler_zero(scene, Obj)
    /\ Goto("rx_edit")
    /\ UNCHANGED <<config, pre, calls>>

RX_Edit ==
    /\ call.pc = "rx_edit"
    /\ scene' = mode_set(scene, "EDIT")
    /\ Goto("rx_rotate")
    /\ UNCHANGED <<config, pre, calls>>

\* A variant of RX_Rotate: the mesh is turned only when the object had a
\* rotation to remove.
RX_Rotate_if_rotated ==
    /\ call.pc = "rx_rotate"
    /\ scene' = IF pre.rot[Obj] = 0 THEN scene ELSE transform_rotate_X(scene)
    /\ Goto("rx_object")
    /\ UNCHANGED <<config, pre, calls>>

RX_Rotate ==
    /\ call.pc = "rx_rotate"
    /\ scene' = transform_rotate_X(scene)
    /\ Goto("rx_object")
    /\ UNCHANGED <<config, pre, calls>>

RX_Object ==
    /\ call.pc = "rx_object"
    /\ scene' = mode_set(scene, "OBJECT")
    /\ Goto("rx_unselect")
    /\ UNCHANGED <<config, pre, calls>>

RX_Unselect ==
    /\ call.pc = "rx_unselect"
    /\ scene' = select_set(scene, Obj, FALSE)
    /\ call' = IF call.i < Len(call.objects)
               THEN [call EXCEPT !.i = @ + 1, !.pc = "rx_select"]
               ELSE [call EXCEPT !.pc = "rx_update"]
    /\ UNCHANGED <<config, pre, calls>>

\* bpy.context.view_layer.update(): no field of the model changes.
RX_Update ==
    /\ call.pc = "rx_update"
    /\ Return
    /\ UNCHANGED <<scene, config, pre, calls>>

(***************************************************************************)
(* move_obj_origin_to_bottom_mean_point, statement by statement.           *)
(***************************************************************************)
\* A variant of bottom_mean_point: the mean taken on Z too.
bottom_mean_point_centre(bb) ==
    <<MeanAxis0(bb)[1], MeanAxis0(bb)[2], MeanAxis0(bb)[3]>>

\* bb_center = np.mean(bb, axis=0); bb_min_z_value = np.min(bb, axis=0)[2]:
\* the point <<bb_center[0], bb_center[1], bb_min_z_value>>.
bottom_mean_point(bb) ==
    <<MeanAxis0(bb)[1], MeanAxis0(bb)[2], MinAxis0(bb)[3]>>

\* value=[-bb_center[0], -bb_center[1], -bb_min_z_value]
translate_value(p) == <<-p[1], -p[2], -p[3]>>

MV_Call ==
    \E objects \in SeqsUpTo(MeshObjects, MaxList) :
        /\ Begin("move_obj_origin_to_bottom_mean_point", objects, <<>>, "mv_deselect")
        /\ UNCHANGED <<scene, config>>

MV_Deselect ==
    /\ call.pc = "mv_deselect"
    /\ scene' = select_all_DESELECT(scene)
    /\ Goto(IF call.objects = <<>> THEN "mv_update" ELSE "mv_select")
    /\ UNCHANGED <<config, pre, calls>>

MV_Select ==
    /\ call.pc = "mv_select"
    /\ scene' = select_set(scene, Obj, TRUE)
    /\ Goto("mv_active")
    /\ UNCHANGED <<config, pre, calls>>

MV_Active ==
    /\ call.pc = "mv_active"
    /\ scene' = set_active(scene, Obj)
    /\ Goto("mv_bounds")
    /\ UNCHANGED <<config, pre, calls>>

MV_Bounds ==
    /\ call.pc = "mv_bounds"
    /\ call' = [call EXCEPT !.val = bottom_mean_point(get_bounds(scene, Obj)),
                            !.pc = "mv_edit"]
    /\ UNCHANGED <<scene, config, pre, calls>>

MV_Edit ==
    /\ call.pc = "mv_edit"
    /\ scene' = mode_set(scene, "EDIT")
    /\ Goto("mv_translate")
    /\ UNCHANGED <<config, pre, calls>>

MV_Translate ==
    /\ call.pc = "mv_translate"
    /\ scene' = transform_translate(scene, translate_value(call.val))
    /\ Goto("mv_object")
    /\ UNCHANGED <<config, pre, calls>>

\* A variant of MV_Object: the host is left in edit mode.
MV_Object_skipped ==
    /\ call.pc = "mv_object"
    /\ Goto("mv_unselect")
    /\ UNCHANGED <<scene, config, pre, calls>>

MV_Object ==
    /\ call.pc = "mv_object"
    /\ scene' = mode_set(scene, "OBJECT")
    /\ Goto("mv_unselect")
    /\ UNCHANGED <<config, pre, calls>>

MV_Unselect ==
    /\ call.pc = "mv_unselect"
    /\ scene' = select_set(scene, Obj, FALSE)
    /\ call' = IF call.i < Len(call.objects)
               THEN [call EXCEPT !.i = @ + 1, !.pc = "mv_select"]
               ELSE [call EXCEPT !.pc = "mv_update"]
    /\ UNCHANGED <<config, pre, calls>>

MV_Update ==
    /\ call.pc = "mv_update"
    /\ Return
    /\ UNCHANGED <<scene, config, pre, calls>>

(***************************************************************************)
(* The calls that run as one step.                                         *)
(***************************************************************************)
Done(fn, objects, arg, r) ==
    /\ call.pc = "idle"
    /\ scene' = r.scene
    /\ call' = [fn |-> fn, objects |-> objects, arg |-> arg, val |-> Zero,
                i |-> 0, pc |-> "idle", status |-> r.status]
    /\ pre' = scene
    /\ calls' = calls + 1
    /\ UNCHANGED config

CM_Call ==
    /\ calls < MaxCalls
    /\ \E objects \in SeqsUpTo(MeshObjects, MaxList), material_name \in MaterialNames :
          Done("change_material", objects, <<material_name>>,
               change_material(scene, objects, material_name))

SM_Call ==
    /\ calls < MaxCalls
    /\ \E objects \in SeqsUpTo(MeshObjects, MaxList), mode \in Modes :
          Done("change_shading_mode", objects, <<mode>>,
               change_shading_mode(scene, objects, mode))

\* The run of a loader module calls _set_properties once, on what it loaded.
SP_Call ==
    /\ call.status = "none"
    /\ \E objects \in SeqsUpTo(Items, MaxList) :
          Done("_set_properties", objects, <<>>,
               _set_properties(scene, config, objects))

Next ==
    \/ AT_Call
    \/ AT_Deselect
    \/ AT_Select
    \/ AT_Active
    \/ AT_Apply
    \/ AT_Unselect
    \/ AT_End
    \/ RX_Call
    \/ RX_Deselect
    \/ RX_Select
    \/ RX_Active
    \/ RX_Reset
    \/ RX_Edit
    \/ RX_Rotate
    \/ RX_Object
    \/ RX_Unselect
    \/ RX_Update
    \/ MV_Call
    \/ MV_Deselect
    \/ MV_Select
    \/ MV_Active
    \/ MV_Bounds
    \/ MV_Edit
    \/ MV_Translate
    \/ MV_Object
    \/ MV_Unselect
    \/ MV_Update
    \/ CM_Call
    \/ SM_Call

Spec == Init /\ [][Next]_vars

NextLoader == SP_Call

SpecLoader == InitLoader /\ [][NextLoader]_vars

(***************************************************************************)
(* Every mean the model takes is exact: integer division never rounds.     *)
(***************************************************************************)
ArithmeticExact ==
    \A o \in MeshObjects :
        \A a \in 1..3 :
            /\ SumAxis(scene.mesh[o], a, Len(scene.mesh[o])) % Len(scene.mesh[o]) = 0
            /\ SumAxis(get_bounds(scene, o), a, 8) % 8 = 0
            /\ bottom_mean_point(get_bounds(scene, o))[a] % scene.scale[o][a] = 0

(***************************************************************************)
(* The terms the properties below are stated in.                           *)
(***************************************************************************)
Finished(fn) == call.fn = fn /\ call.pc = "idle"

ListedObjects == Range(call.objects)

\* Two characters that are the same letter, in either case.
SameLetter(c, d) ==
    \/ c = d
    \/ \E i \in 1..Len(UpperCase) : {c, d} = {UpperCase[i], LowerCase[i]}

EqualsIgnoringCase(s, t) ==
    /\ Len(s) = Len(t)
    /\ \A i \in 1..Len(s) : SameLetter(s[i], t[i])

HasCpPrefix(key) ==
    /\ Len(key) >= 3
    /\ key[1] = "c" /\ key[2] = "p" /\ key[3] = "_"

WithoutFirst3(key) == [i \in 1..(Len(key) - 3) |-> key[i + 3]]

ConfiguredKeys == {config.add_properties[k][1] : k \in 1..Len(config.add_properties)}

AllKeysPrefixed == \A key \in ConfiguredKeys : HasCpPrefix(key)

\* x holds every configured property under its key without the prefix.
HoldsConfigured(x) ==
    \A k \in 1..Len(config.add_properties) :
        LET key == config.add_properties[k][1]
            name == WithoutFirst3(key)
        IN  HasCpPrefix(key) =>
               /\ name \in DOMAIN scene.props[x]
               /\ scene.props[x][name] = config.add_properties[k][2]

\* Every property x holds is a configured one or one it held before, unchanged.
NoOtherProperty(x) ==
    \A name \in DOMAIN scene.props[x] :
        \/ /\ x \in ListedObjects
           /\ \E key \in ConfiguredKeys : HasCpPrefix(key) /\ name = WithoutFirst3(key)
        \/ /\ name \in DOMAIN pre.props[x]
           /\ scene.props[x][name] = pre.props[x][name]

TransformOf(h, o) == <<h.loc[o], h.rot[o], h.scale[o]>>

Identity == <<Zero, 0, One>>

\* The mesh m turned a quarter around the X axis through its median point.
QuarterTurned(m) ==
    LET c == [a \in 1..3 |-> SumAxis(m, a, Len(m)) \div Len(m)]
    IN  [i \in 1..Len(m) |->
            <<m[i][1], c[2] - (m[i][3] - c[3]), c[3] + (m[i][2] - c[2])>>]

RECURSIVE TurnedTimes(_, _)
TurnedTimes(m, n) == IF n = 0 THEN m ELSE TurnedTimes(QuarterTurned(m), n - 1)

Occurrences(objects, o) == Cardinality({i \in 1..Len(objects) : objects[i] = o})

\* The bounding box of o is centred on X = 0 and Y = 0 and its lowest Z is 0.
BottomCentred(h, o) ==
    LET bb == get_bounds(h, o)
    IN  /\ SumAxis(bb, 1, 8) = 0
        /\ SumAxis(bb, 2, 8) = 0
        /\ \A i \in 1..8 : bb[i][3] >= 0
        /\ \E i \in 1..8 : bb[i][3] = 0

(***************************************************************************)
(* C1.  change_material: with a material that is not loaded the call       *)
(* raises and no active material changes; with a loaded one, every object  *)
(* of the list has it as active material after the call.                   *)
(***************************************************************************)
C1_ChangeMaterial ==
    Finished("change_material") =>
        IF call.arg[1] \in LoadedMaterials
        THEN /\ call.status = "returned"
             /\ \A o \in ListedObjects : scene.material[o] = call.arg[1]
        ELSE /\ call.status = "Exception"
             /\ \A o \in Objects : scene.material[o] = pre.material[o]

C1_Witness ==
    /\ Finished("change_material")
    /\ call.status = "Exception"
    /\ call.arg = <<"matX">>
    /\ call.objects = <<"o1", "o2">>
    /\ calls = 2
    /\ pre.material["o2"] = "matA"

(***************************************************************************)
(* C2.  change_shading_mode: for "flat" or "smooth" in any letter case,    *)
(* every face of every object of the list has use_smooth False or True     *)
(* after the call; any other mode raises and leaves every face as it was.  *)
(***************************************************************************)
C2_ChangeShadingMode ==
    Finished("change_shading_mode") =>
        LET mode == call.arg[1]
            AllFaces(b) ==
                \A o \in ListedObjects :
                    \A f \in 1..Len(scene.smooth[o]) : scene.smooth[o][f] = b
        IN  IF EqualsIgnoringCase(mode, <<"f", "l", "a", "t">>)
            THEN call.status = "returned" /\ AllFaces(FALSE)
            ELSE IF EqualsIgnoringCase(mode, <<"s", "m", "o", "o", "t", "h">>)
            THEN call.status = "returned" /\ AllFaces(TRUE)
            ELSE call.status = "Exception" /\ scene.smooth = pre.smooth

C2_Witness ==
    /\ Finished("change_shading_mode")
    /\ call.arg = << <<"F", "l", "a", "T">> >>
    /\ call.objects = <<"o2", "o1">>
    /\ call.status = "returned"
    /\ pre.smooth["o1"][1] = TRUE
    /\ scene.smooth["o1"][1] = FALSE

(***************************************************************************)
(* C3.  _set_properties raises a RuntimeError when add_properties holds a  *)
(* key that does not start with "cp_".  As stated, for any list of         *)
(* objects: C3_AnyList.  As it holds, for any list that is not empty:      *)
(* C3_NonEmptyList.                                                        *)
(***************************************************************************)
C3_AnyList ==
    (Finished("_set_properties") /\ ~AllKeysPrefixed) =>
        call.status = "RuntimeError"

C3_NonEmptyList ==
    (Finished("_set_properties") /\ ~AllKeysPrefixed /\ call.objects # <<>>) =>
        call.status = "RuntimeError"

C3_Witness ==
    /\ Finished("_set_properties")
    /\ config.add_properties = << << <<"c", "p", "_", "a">>, 2 >>,
                                  << <<"a", "c", "p", "_">>, 1 >> >>
    /\ call.objects = <<"d1", "o1">>
    /\ call.status = "RuntimeError"

C5_ApplyTransformation ==
    /\ call.pc = "at_apply" =>
          /\ scene.selected = {Obj}
          /\ scene.active = Obj
    /\ Finished("apply_transformation_to_objects") =>
          /\ call.status = "returned"
          /\ scene.selected = {}
          /\ \A o \in ListedObjects :
                /\ TransformOf(scene, o) = Identity
                /\ scene.mesh[o] =
                      [i \in 1..Len(pre.mesh[o]) |-> World(pre, o, pre.mesh[o][i])]

C5_Witness ==
    /\ Finished("apply_transformation_to_objects")
    /\ call.objects = <<"o2", "o1">>
    /\ pre.selected = {"o1", "o3"}
    /\ TransformOf(pre, "o1") # Identity
    /\ scene.mesh["o1"] # pre.mesh["o1"]

(***************************************************************************)
(* C6.  _set_properties changes shading and material only on items of the  *)
(* list that are 'MESH' objects and only when the parameter is configured, *)
(* and transforms only items of the list that are objects and only when    *)
(* cf_apply_transformation is true; every other item keeps everything but  *)
(* its custom properties, and receives those.  As stated, every other item *)
(* of the list receives them after any call: C6_AfterAnyCall.  As it       *)
(* holds, after a call that returns: C6_CustomFunctions.                   *)
(***************************************************************************)
C6_OnlyWhereApplicable ==
    /\ \A o \in MeshObjects :
          scene.smooth[o] # pre.smooth[o] =>
              o \in ListedObjects /\ config.cf_set_shading # <<>>
    /\ \A o \in Objects :
          scene.material[o] # pre.material[o] =>
              /\ o \in ListedObjects /\ o \in MeshObjects
              /\ config.cf_set_obj_material # <<>>
    /\ \A o \in Objects :
          (TransformOf(scene, o) # TransformOf(pre, o)
             \/ (o \in MeshObjects /\ scene.mesh[o] # pre.mesh[o])) =>
              o \in ListedObjects /\ config.cf_apply_transformation = <<TRUE>>
    /\ (scene.selected # pre.selected \/ scene.active # pre.active) =>
          /\ config.cf_apply_transformation = <<TRUE>>
          /\ ListedObjects \cap Objects # {}
    /\ scene.mode = pre.mode

C7_Step ==
    /\ call.pc = "mv_translate" =>
          LET before == get_bounds(scene, Obj)
              after == get_bounds(scene', Obj)
              cx8 == SumAxis(before, 1, 8)
              cy8 == SumAxis(before, 2, 8)
              zmin == Min({before[i][3] : i \in 1..8})
          IN  /\ \A i \in 1..8 :
                    /\ 8 * after[i][1] = 8 * before[i][1] - cx8
                    /\ 8 * after[i][2] = 8 * before[i][2] - cy8
                    /\ after[i][3] = before[i][3] - zmin
              /\ BottomCentred(scene, Obj) =>
                    translate_value(call.val) = <<0, 0, 0>>
    /\ (call'.fn = "move_obj_origin_to_bottom_mean_point" /\ call'.pc = "idle") =>
          /\ \A o \in Range(call'.objects) : BottomCentred(scene', o)
          /\ (\A o \in Range(call'.objects) : BottomCentred(pre', o)) =>
                scene'.mesh = pre'.mesh

C7_MoveOrigin == [][C7_Step]_vars

C7_Witness ==
    /\ Finished("move_obj_origin_to_bottom_mean_point")
    /\ calls = 2
    /\ call.objects = <<"o1", "o2">>
    /\ BottomCentred(pre, "o1")
    /\ BottomCentred(pre, "o2")
    /\ pre.rot["o1"] = 1
    /\ scene.mesh = pre.mesh

(***************************************************************************)
(* C8.  remove_x_axis_rotation: after the call every object of the list    *)
(* has rotation_euler [0, 0, 0] and its mesh is turned a quarter around X, *)
(* whether or not its rotation was [0, 0, 0] before.  As stated, turned    *)
(* exactly once: C8_ExactlyOnce.  As it holds, turned once for each time   *)
(* the object occurs in the list: C8_OncePerOccurrence.                    *)
(***************************************************************************)
C8_ExactlyOnce ==
    Finished("remove_x_axis_rotation") =>
        \A o \in ListedObjects :
            /\ scene.rot[o] = 0
            /\ scene.mesh[o] = QuarterTurned(pre.mesh[o])

C8_OncePerOccurrence ==
    Finished("remove_x_axis_rotation") =>
        /\ call.status = "returned"
        /\ \A o \in ListedObjects :
              /\ scene.rot[o] = 0
              /\ scene.mesh[o] = TurnedTimes(pre.mesh[o], Occurrences(call.objects, o))

C8_Witness ==
    /\ Finished("remove_x_axis_rotation")
    /\ call.objects = <<"o1", "o2">>
    /\ pre.rot["o1"] = 0
    /\ pre.rot["o2"] = 3
    /\ scene.mesh["o1"] = QuarterTurned(pre.mesh["o1"])
    /\ scene.mesh["o1"] # pre.mesh["o1"]

(***************************************************************************)
(* C9.  remove_x_axis_rotation and move_obj_origin_to_bottom_mean_point:   *)
(* the rotate / translate operator runs in EDIT mode with the object being *)
(* processed active and the only selected object; the host is back in      *)
(* OBJECT mode before the next object is selected; when the function       *)
(* returns the host is in OBJECT mode and no object is selected.           *)
(***************************************************************************)
C9_ModeAndSelection ==
    /\ call.pc \in {"rx_rotate", "mv_translate"} =>
          /\ scene.mode = "EDIT"
          /\ scene.active = Obj
          /\ scene.selected = {Obj}
          /\ scene.editing = {Obj}
    /\ call.pc \in {"rx_select", "mv_select"} =>
          /\ scene.mode = "OBJECT"
          /\ scene.selected = {}
    /\ scene.mode = "EDIT" =>
          call.pc \in {"rx_rotate", "rx_object", "mv_translate", "mv_object"}
    /\ (Finished("remove_x_axis_rotation")
          \/ Finished("move_obj_origin_to_bottom_mean_point")) =>
          /\ call.status = "returned"
          /\ scene.mode = "OBJECT"
          /\ scene.selected = {}

C9_Witness ==
    /\ call.pc = "mv_translate"
    /\ call.objects = <<"o2", "o1">>
    /\ call.i = 2
    /\ pre.selected = {"o2", "o3"}
    /\ scene.mode = "EDIT"
    /\ scene.selected = {"o1"}

(***************************************************************************)
(* The two forms of apply_transformation_to_objects agree.                 *)
(***************************************************************************)
ApplyTransformationForms ==
    Finished("apply_transformation_to_objects") =>
        scene = apply_transformation_to_objects(pre, call.objects)

=============================================================================
